---------------------------- MODULE Spec2Model ----------------------------
(***************************************************************************)
(* Model of the gpt crate: the Uuid, PartRecord, ProtectiveMBR, Header and *)
(* Partition codecs and the GptLayout aggregate.                           *)
(*                                                                         *)
(* Representation.                                                         *)
(*   - A byte buffer (&[u8], [u8; N]) is a sequence of numbers 0..255;     *)
(*     Rust's 0-based blk[a..b] is Slice(blk, a, b).                       *)
(*   - An unsigned integer wider than a byte is the sequence of its 16-bit *)
(*     limbs, least significant first: u16 has 1 limb, u32 has 2, u64 has  *)
(*     4.  (TLC's integers are 32-bit signed, so u32/u64 values cannot be  *)
(*     numbers.)  Reading and writing a little-endian integer is real      *)
(*     arithmetic on the limbs.                                            *)
(*   - A char is its code point.                                           *)
(*   - Result<T,E> is Ok(v) or Err(e), Option<T> is Some(v) or None, and a *)
(*     panic (failed assert!, slice out of range, copy_from_slice length   *)
(*     mismatch) is Panic.                                                 *)
(***************************************************************************)
EXTENDS Integers, Sequences, FiniteSets, TLC

VARIABLES
    protective_mbr,     \* GptLayout.protective_mbr: Uninit or Init(ProtectiveMBR)
    primary_header,     \* GptLayout.primary_header: Uninit or Init(Header)
    backup_header,      \* GptLayout.backup_header: Uninit or Init(Header)
    partitions,         \* GptLayout.partitions: sequence of <<Partition, slot>>
    backup_partitions,  \* GptLayout.backup_partitions: sequence of <<Partition, slot>>
    fatal,              \* TRUE once a call has panicked
    calls,              \* number of init_* calls made so far
    ret                 \* the last call: its name, its arguments and what it returned

vars == <<protective_mbr, primary_header, backup_header, partitions,
          backup_partitions, fatal, calls, ret>>

layout == <<protective_mbr, primary_header, backup_header, partitions,
            backup_partitions>>

----------------------------------------------------------------------------
(* Results, options, panics *)

Ok(v) == [tag |-> "Ok", val |-> v]

Err(e) == [tag |-> "Err", err |-> e]

Some(v) == [tag |-> "Some", val |-> v]

None == [tag |-> "None"]

Panic == [tag |-> "Panic"]

Uninit == [tag |-> "Uninit"]

MaybeInit(v) == [tag |-> "Init", val |-> v]

----------------------------------------------------------------------------
(* Bytes, slices and little-endian integers *)

Zeros(n) == [i \in 1..n |-> 0]

\* Rust blk[start..end] for 0 <= start <= end <= Len(blk)
Slice(blk, start, end) == SubSeq(blk, start + 1, end)

\* byteorder::LittleEndian::read_u16 / read_u32 / read_u64 of a 2-, 4- or
\* 8-byte slice: limb i is byte 2i plus 256 times byte 2i+1.
read_le(bytes) ==
    [i \in 1..(Len(bytes) \div 2) |-> bytes[2 * i - 1] + 256 * bytes[2 * i]]

\* `x as u64` for an unsigned x: zero extension to four limbs.
as_u64(v) == [i \in 1..4 |-> IF i <= Len(v) THEN v[i] ELSE 0]

\* lib.rs write_to_bytes::<SIZE>(val: u64, bytes, start): val truncated to
\* SIZE bytes (as u16 / as u32 / as is), written little-endian into bts, and
\* bts copied to bytes[start .. start+SIZE]; any other SIZE copies zeros.
\* The caller guarantees start + SIZE <= Len(bytes).
write_to_bytes(SIZE, val, bytes, start) ==
    LET limb(k) == val[(k \div 2) + 1]
        bts == [k \in 0..(SIZE - 1) |->
                   IF SIZE \in {2, 4, 8}
                   THEN IF k % 2 = 0 THEN limb(k) % 256 ELSE limb(k) \div 256
                   ELSE 0]
    IN  [i \in 1..Len(bytes) |->
            IF i - 1 >= start /\ i - 1 < start + SIZE
            THEN bts[i - 1 - start] ELSE bytes[i]]

\* ToU8::as_u8 for u8 and for char (`*self as u8` keeps the low 8 bits).
as_u8(x) == x % 256

\* lib.rs copy_bytes(src, dst, start, size): dst[index+start] = src[index].as_u8()
copy_bytes(src, dst, start, size) ==
    [i \in 1..Len(dst) |->
        IF i - 1 >= start /\ i - 1 < start + size
        THEN as_u8(src[i - start]) ELSE dst[i]]

\* <[u8]>::copy_from_slice: panics unless both slices have the same length,
\* otherwise the destination becomes a copy of the source.
copy_from_slice(dst, src) ==
    IF Len(dst) # Len(src) THEN Panic ELSE Ok(src)

----------------------------------------------------------------------------
(* uuid.rs *)

Uuid_validate_first_byte(u) == u[1] # 0

\* Uuid::validate: self.0 != [0u8; 16]
Uuid_validate(u) == u # Zeros(16)

\* impl From<&[u8]> for Uuid: assert_eq!(value.len(), 16), then a copy
Uuid_from(value) ==
    IF Len(value) # 16 THEN Panic ELSE copy_from_slice(Zeros(16), value)

\* the lowercase hexadecimal digit of d in 0..15: '0'..'9', 'a'..'f'
LowerHexDigit(d) == IF d < 10 THEN 48 + d ELSE 97 + (d - 10)

\* core::fmt::LowerHex for u8 under "{:x}" (no width, no fill): the digits
\* of the value without leading zeros, a single '0' for zero
LowerHex(b) ==
    IF b < 16 THEN <<LowerHexDigit(b)>>
    ELSE <<LowerHexDigit(b \div 16), LowerHexDigit(b % 16)>>

\* impl Display for Uuid: the text written to the formatter by
\* write!(f, "{:x}{:x}{:x}{:x}-{:x}{:x}-{:x}{:x}-{:x}{:x}-{:x}{:x}{:x}{:x}{:x}{:x}",
\*        self.0[3], self.0[2], self.0[1], self.0[0], self.0[5], self.0[4],
\*        self.0[7], self.0[6], self.0[8], self.0[9], self.0[10] .. self.0[15])
\* ('-' is code point 45; self.0[k] is self[k + 1])
Uuid_fmt(self) ==
    LowerHex(self[4]) \o LowerHex(self[3]) \o LowerHex(self[2]) \o LowerHex(self[1])
    \o <<45>> \o LowerHex(self[6]) \o LowerHex(self[5])
    \o <<45>> \o LowerHex(self[8]) \o LowerHex(self[7])
    \o <<45>> \o LowerHex(self[9]) \o LowerHex(self[10])
    \o <<45>> \o LowerHex(self[11]) \o LowerHex(self[12]) \o LowerHex(self[13])
              \o LowerHex(self[14]) \o LowerHex(self[15]) \o LowerHex(self[16])

----------------------------------------------------------------------------
(* hdr.rs *)

\* GPT_SIGNATURE: ['E','F','I',' ','P','A','R','T'] as code points
GPT_SIGNATURE == <<69, 70, 73, 32, 80, 65, 82, 84>>

\* size_of::<Header>(): 116 bytes of fields, rounded up to the alignment 8
HeaderStructSize == 120

\* the end of the last field Header::deserialize reads, blk[88..92]
HeaderWireLen == 92

check_signature_first_char(sig) ==
    IF as_u8(sig[1]) # GPT_SIGNATURE[1] THEN Err("InvalidGptSignature") ELSE Ok(<<>>)

\* check_signature: the first byte that differs from GPT_SIGNATURE, taken
\* as a char, makes it return Err(InvalidGptSignature)
check_signature(sig) ==
    IF \E index \in 1..Len(sig) : sig[index] # GPT_SIGNATURE[index]
    THEN Err("InvalidGptSignature")
    ELSE Ok(<<>>)

\* Header::deserialize.  &blk[0..8] panics on a buffer shorter than 8 bytes;
\* after the signature check, the field reads panic on a buffer shorter than
\* 92 bytes.  No checksum is computed anywhere in the function.
Header_deserialize(blk) ==
    IF Len(blk) < 8 THEN Panic
    ELSE LET sig == check_signature(Slice(blk, 0, 8)) IN
         IF sig.tag = "Err" THEN sig
         ELSE IF Len(blk) < HeaderWireLen THEN Panic
         ELSE Ok([signature    |-> GPT_SIGNATURE,
                  revision     |-> [major |-> read_le(Slice(blk, 10, 12)),
                                    minor |-> read_le(Slice(blk, 8, 10))],
                  header_size  |-> read_le(Slice(blk, 12, 16)),
                  crc32        |-> read_le(Slice(blk, 16, 20)),
                  reserved     |-> read_le(Slice(blk, 20, 24)),
                  my_lba       |-> read_le(Slice(blk, 24, 32)),
                  backup_lba   |-> read_le(Slice(blk, 32, 40)),
                  first_usable |-> read_le(Slice(blk, 40, 48)),
                  last_usable  |-> read_le(Slice(blk, 48, 56)),
                  disk_guid    |-> Uuid_from(Slice(blk, 56, 72)).val,
                  part_start   |-> read_le(Slice(blk, 72, 80)),
                  num_parts    |-> read_le(Slice(blk, 80, 84)),
                  part_size    |-> read_le(Slice(blk, 84, 88)),
                  crc32_parts  |-> read_le(Slice(blk, 88, 92))])

\* Header::serialize: signature chars as bytes, then every field but
\* `reserved` at its offset; bytes 20..23 keep the initial zeros.
Header_serialize(self) ==
    LET b0  == copy_bytes(self.signature, Zeros(HeaderStructSize), 0, 8)
        b1  == write_to_bytes(2, as_u64(self.revision.minor), b0, 8)
        b2  == write_to_bytes(2, as_u64(self.revision.major), b1, 10)
        b3  == write_to_bytes(4, as_u64(self.header_size), b2, 12)
        b4  == write_to_bytes(4, as_u64(self.crc32), b3, 16)
        b5  == write_to_bytes(8, self.my_lba, b4, 24)
        b6  == write_to_bytes(8, self.backup_lba, b5, 32)
        b7  == write_to_bytes(8, as_u64(self.first_usable), b6, 40)
        b8  == write_to_bytes(8, as_u64(self.last_usable), b7, 48)
        b9  == copy_bytes(self.disk_guid, b8, 56, 16)
        b10 == write_to_bytes(8, self.part_start, b9, 72)
        b11 == write_to_bytes(4, as_u64(self.num_parts), b10, 80)
        b12 == write_to_bytes(4, as_u64(self.part_size), b11, 84)
    IN  write_to_bytes(4, as_u64(self.crc32_parts), b12, 88)

----------------------------------------------------------------------------
(* partition.rs *)

PARTITION_LBA_SIZE == 128

MIN_PARTITION_NUM == 128

\* impl From<&[u8]> for PartitionName: copy_from_slice into [0u8; 72]
PartitionName_from(value) == copy_from_slice(Zeros(72), value)

\* Partition::deserialize: the slices up to blk[56..128] panic on a buffer
\* shorter than 128 bytes; an entry is returned iff the type GUID validates.
Partition_deserialize(blk) ==
    IF Len(blk) < PARTITION_LBA_SIZE THEN Panic
    ELSE LET part_type_guid == Uuid_from(Slice(blk, 0, 16)).val
             part_guid      == Uuid_from(Slice(blk, 16, 32)).val
             start_lba      == read_le(Slice(blk, 32, 40))
             end_lba        == read_le(Slice(blk, 40, 48))
             attrs          == read_le(Slice(blk, 48, 56))
             name           == PartitionName_from(Slice(blk, 56, PARTITION_LBA_SIZE)).val
         IN  IF Uuid_validate(part_type_guid)
             THEN Some([part_type_guid |-> part_type_guid,
                        part_guid      |-> part_guid,
                        start_lba      |-> start_lba,
                        end_lba        |-> end_lba,
                        attrs          |-> attrs,
                        name           |-> name])
             ELSE None

Partition_serialize_attrs_at_40(self) ==
    LET b0 == copy_bytes(self.part_type_guid, Zeros(PARTITION_LBA_SIZE), 0, 16)
        b1 == copy_bytes(self.part_guid, b0, 16, 16)
        b2 == write_to_bytes(8, self.start_lba, b1, 32)
        b3 == write_to_bytes(8, self.end_lba, b2, 40)
        b4 == write_to_bytes(8, self.attrs, b3, 40)
    IN  copy_bytes(self.name, b4, 56, 72)

\* Partition::serialize
Partition_serialize(self) ==
    LET b0 == copy_bytes(self.part_type_guid, Zeros(PARTITION_LBA_SIZE), 0, 16)
        b1 == copy_bytes(self.part_guid, b0, 16, 16)
        b2 == write_to_bytes(8, self.start_lba, b1, 32)
        b3 == write_to_bytes(8, self.end_lba, b2, 40)
        b4 == write_to_bytes(8, self.attrs, b3, 48)
    IN  copy_bytes(self.name, b4, 56, 72)

----------------------------------------------------------------------------
(* mbr.rs *)

MBR_SIGNATURE == <<85, 170>>

\* PartRecord::from_bytes
PartRecord_from_bytes(bytes) ==
    IF Len(bytes) # 16 THEN Err("InvalidPartitionLength")
    ELSE Ok([boot_indicator |-> bytes[1],
             start_head     |-> bytes[2],
             start_sector   |-> bytes[3],
             start_track    |-> bytes[4],
             os_type        |-> bytes[5],
             end_head       |-> bytes[6],
             end_sector     |-> bytes[7],
             end_track      |-> bytes[8],
             lb_start       |-> read_le(Slice(bytes, 8, 12)),
             lb_size        |-> read_le(Slice(bytes, 12, 16))])

\* PartRecord::to_bytes: bytes[7] is assigned self.end_sector
PartRecord_to_bytes(self) ==
    LET b0 == <<self.boot_indicator, self.start_head, self.start_sector,
                self.start_track, self.os_type, self.end_head,
                self.end_sector, self.end_sector>> \o Zeros(8)
        b1 == write_to_bytes(4, as_u64(self.lb_start), b0, 8)
    IN  write_to_bytes(4, as_u64(self.lb_size), b1, 12)

\* ProtectiveMBR::deserialize.  Statement by statement:
\*   bootcode.copy_from_slice(&blk[0..440])     needs Len(blk) >= 440
\*   bootcode.copy_from_slice(&blk[440..444])   a 4-byte source for the
\*                                              440-byte bootcode
\*   the four PartRecord::from_bytes(..)?, blk[510], blk[511], the
\*   signature comparison, and the value built with the zeroed
\*   disk_signature.
ProtectiveMBR_deserialize(blk) ==
    IF Len(blk) < 440 THEN Panic
    ELSE LET bootcode1 == copy_from_slice(Zeros(440), Slice(blk, 0, 440)) IN
    IF bootcode1.tag = "Panic" THEN Panic
    ELSE IF Len(blk) < 444 THEN Panic
    ELSE LET disk_signature == Zeros(4)
             bootcode2 == copy_from_slice(bootcode1.val, Slice(blk, 440, 444)) IN
    IF bootcode2.tag = "Panic" THEN Panic
    ELSE IF Len(blk) < 510 THEN Panic
    ELSE LET unknown == read_le(Slice(blk, 444, 446))
             p == [i \in 1..4 |->
                     PartRecord_from_bytes(Slice(blk, 446 + 16 * (i - 1), 462 + 16 * (i - 1)))] IN
    IF \E i \in 1..4 : p[i].tag = "Err"
    THEN p[CHOOSE i \in 1..4 : p[i].tag = "Err" /\ \A j \in 1..(i - 1) : p[j].tag = "Ok"]
    ELSE IF Len(blk) < 512 THEN Panic
    ELSE LET signature == <<blk[511], blk[512]>> IN
         IF signature # MBR_SIGNATURE
         THEN Err("InvalidMBRSignature")
         ELSE Ok([bootcode       |-> bootcode2.val,
                  disk_signature |-> disk_signature,
                  unknown        |-> unknown,
                  partitions     |-> [i \in 1..4 |-> p[i].val],
                  signature      |-> signature])

\* ProtectiveMBR::serialize: a zeroed 512-byte array, then the boot code at
\* 0, the disk signature at 440, `unknown as u64` in two bytes at 444, the
\* record of index `index` (0-based) through to_bytes at index * 16 + 446,
\* and the signature at 510.
ProtectiveMBR_serialize(self) ==
    LET bytes0 == Zeros(512)
        bytes1 == copy_bytes(self.bootcode, bytes0, 0, 440)
        bytes2 == copy_bytes(self.disk_signature, bytes1, 440, 4)
        bytes3 == write_to_bytes(2, as_u64(self.unknown), bytes2, 444)
        part(bytes, index) ==
            copy_bytes(PartRecord_to_bytes(self.partitions[index + 1]), bytes,
                       index * 16 + 446, 16)
        bytes4 == part(part(part(part(bytes3, 0), 1), 2), 3)
    IN  copy_bytes(self.signature, bytes4, 510, 2)

\* PartRecord::new_protective(lb_size: Option<u32>)
PartRecord_new_protective(lb_size) ==
    [boot_indicator |-> 0, start_head |-> 0, start_sector |-> 2, start_track |-> 0,
     os_type |-> 238, end_head |-> 255, end_sector |-> 255, end_track |-> 255,
     lb_start |-> <<1, 0>>,
     lb_size |-> IF lb_size.tag = "Some" THEN lb_size.val ELSE <<65535, 65535>>]

\* PartRecord::zero()
PartRecord_zero ==
    [boot_indicator |-> 0, start_head |-> 0, start_sector |-> 0, start_track |-> 0,
     os_type |-> 0, end_head |-> 0, end_sector |-> 0, end_track |-> 0,
     lb_start |-> <<0, 0>>, lb_size |-> <<0, 0>>]

----------------------------------------------------------------------------
(* CRC-32 (IEEE 802.3, reflected, polynomial EDB88320h) as the GPT format  *)
(* defines the header checksum.  The crate computes no checksum; this is   *)
(* the reference the header claims are stated against.  A CRC register is  *)
(* a sequence of 32 bits, least significant first.                         *)

Bits(n, w) == [i \in 1..w |-> (n \div (2 ^ (i - 1))) % 2]

Xor(a, b) == [i \in 1..Len(a) |-> (a[i] + b[i]) % 2]

CrcPoly == Bits(33568, 16) \o Bits(60856, 16)

CrcShift(c) ==
    LET shr == [i \in 1..32 |-> IF i < 32 THEN c[i + 1] ELSE 0]
    IN  IF c[1] = 1 THEN Xor(shr, CrcPoly) ELSE shr

CrcByte(c, byte) ==
    LET c0 == Xor(c, Bits(byte, 8) \o Zeros(24))
    IN  CrcShift(CrcShift(CrcShift(CrcShift(CrcShift(CrcShift(CrcShift(CrcShift(c0))))))))

RECURSIVE CrcUpdate(_, _, _)
CrcUpdate(c, bytes, i) ==
    IF i > Len(bytes) THEN c
    ELSE LET next == CrcByte(c, bytes[i])
         IN  IF Len(next) = 32 THEN CrcUpdate(next, bytes, i + 1) ELSE next

LimbOf(bits, from) ==
      bits[from]            + 2 * bits[from + 1]     + 4 * bits[from + 2]
    + 8 * bits[from + 3]    + 16 * bits[from + 4]    + 32 * bits[from + 5]
    + 64 * bits[from + 6]   + 128 * bits[from + 7]   + 256 * bits[from + 8]
    + 512 * bits[from + 9]  + 1024 * bits[from + 10] + 2048 * bits[from + 11]
    + 4096 * bits[from + 12] + 8192 * bits[from + 13] + 16384 * bits[from + 14]
    + 32768 * bits[from + 15]

\* the CRC-32 of a byte sequence, as a u32 (two limbs)
Crc32(bytes) ==
    LET ones == [i \in 1..32 |-> 1]
        c == Xor(CrcUpdate(ones, bytes, 1), ones)
    IN  <<LimbOf(c, 1), LimbOf(c, 17)>>

\* the checksum a header buffer must carry in bytes 16..19: the CRC-32 of
\* its header bytes with the CRC field taken as zero
HeaderCrc32(blk) ==
    Crc32(write_to_bytes(4, <<0, 0, 0, 0>>, Slice(blk, 0, HeaderWireLen), 16))

----------------------------------------------------------------------------
(* Inputs of the codecs *)

\* [bytes EXCEPT byte `at` (0-based) set to v]
Poke(bytes, at, v) == [bytes EXCEPT ![at + 1] = v]

GuidA == <<0, 1, 2, 3, 4, 5, 6, 7, 8, 9, 10, 11, 12, 13, 14, 15>>

GuidB == <<40, 115, 42, 193, 31, 248, 210, 17, 186, 75, 0, 160, 201, 62, 201, 59>>

\* a GUID whose only non-zero byte is the last one
GuidLast == Poke(Zeros(16), 15, 1)

\* identifiers given to the formatter: bytes below and above 10h, all zero,
\* all FFh, and one whose sixteen bytes are all at least 10h
Uuids ==
    { GuidA, GuidB, GuidLast, Zeros(16), [i \in 1..16 |-> 255],
      [i \in 1..16 |-> 16 * i - 1] }

NameA == <<69, 0, 70, 0, 73, 0>> \o Zeros(66)

NameB == [i \in 1..72 |-> (3 * i) % 256]

H1 ==
    [signature    |-> GPT_SIGNATURE,
     revision     |-> [major |-> <<1>>, minor |-> <<0>>],
     header_size  |-> <<92, 0>>,
     crc32        |-> <<0, 0>>,
     reserved     |-> <<0, 0>>,
     my_lba       |-> <<1, 0, 0, 0>>,
     backup_lba   |-> <<65535, 255, 0, 0>>,
     first_usable |-> <<34, 0, 0, 0>>,
     last_usable  |-> <<65502, 255, 0, 0>>,
     disk_guid    |-> GuidB,
     part_start   |-> <<2, 0, 0, 0>>,
     num_parts    |-> <<128, 0>>,
     part_size    |-> <<128, 0>>,
     crc32_parts  |-> <<43981, 4660>>]

\* H1 carrying the checksum of its own serialized form
HValid == [H1 EXCEPT !.crc32 = HeaderCrc32(Header_serialize(H1))]

\* the backup copy of H1: my_lba and backup_lba exchanged
HBackup == [H1 EXCEPT !.my_lba = H1.backup_lba, !.backup_lba = H1.my_lba]

Headers ==
    { H1, HValid, HBackup,
      [H1 EXCEPT !.signature = <<69, 70, 73, 32, 80, 65, 82, 85>>],
      [H1 EXCEPT !.revision = [major |-> <<258>>, minor |-> <<772>>]],
      [H1 EXCEPT !.header_size = <<4660, 22136>>],
      [H1 EXCEPT !.crc32 = <<48879, 57005>>],
      [H1 EXCEPT !.reserved = <<1, 0>>],
      [H1 EXCEPT !.my_lba = <<513, 1027, 1541, 2055>>],
      [H1 EXCEPT !.backup_lba = <<65535, 65535, 65535, 65535>>],
      [H1 EXCEPT !.first_usable = <<0, 0, 0, 32768>>],
      [H1 EXCEPT !.last_usable = <<4369, 8738, 13107, 17476>>],
      [H1 EXCEPT !.disk_guid = GuidA],
      [H1 EXCEPT !.part_start = <<0, 1, 0, 0>>],
      [H1 EXCEPT !.num_parts = <<4, 256>>],
      [H1 EXCEPT !.part_size = <<256, 1>>],
      [H1 EXCEPT !.crc32_parts = <<0, 0>>] }

ValidHeaderBlk == Header_serialize(HValid)

\* the serialized valid header with one of its header bytes changed (each
\* byte incremented, each signature byte also cleared), whole, padded to a
\* 512-byte block, and cut short
HeaderBlks ==
    { Poke(ValidHeaderBlk, at, (ValidHeaderBlk[at + 1] + 1) % 256) :
        at \in 0..(HeaderWireLen - 1) }
    \cup { Poke(ValidHeaderBlk, at, 0) : at \in 0..7 }
    \cup { ValidHeaderBlk, ValidHeaderBlk \o Zeros(392),
           Slice(ValidHeaderBlk, 0, 4), Slice(ValidHeaderBlk, 0, 50),
           Poke(Slice(ValidHeaderBlk, 0, 50), 3, 0) }

PA ==
    [part_type_guid |-> GuidB,
     part_guid      |-> GuidA,
     start_lba      |-> <<2048, 0, 0, 0>>,
     end_lba        |-> <<4095, 16, 0, 0>>,
     attrs          |-> <<1, 0, 0, 32768>>,
     name           |-> NameA]

PB ==
    [part_type_guid |-> GuidLast,
     part_guid      |-> GuidB,
     start_lba      |-> <<513, 1027, 1541, 2055>>,
     end_lba        |-> <<65535, 65535, 65535, 65535>>,
     attrs          |-> <<0, 0, 0, 0>>,
     name           |-> NameB]

Partitions ==
    { PA, PB,
      [PA EXCEPT !.part_type_guid = Zeros(16)],
      [PA EXCEPT !.part_type_guid = Poke(Zeros(16), 0, 128)],
      [PA EXCEPT !.part_guid = Zeros(16)],
      [PA EXCEPT !.start_lba = <<0, 0, 0, 1>>],
      [PA EXCEPT !.end_lba = <<0, 0, 0, 0>>],
      [PA EXCEPT !.attrs = <<4660, 22136, 39612, 57072>>],
      [PA EXCEPT !.name = Zeros(72)],
      [PB EXCEPT !.name = Poke(Zeros(72), 71, 255)] }

\* the entry of PA with one byte cleared, the empty entry with one byte of
\* its two GUIDs or its last byte set, entries whose type GUID is zero (all
\* zero, and zero type with every other byte set), a short and a long buffer
PartitionBlks ==
    { Poke(Partition_serialize(PA), at, 0) : at \in 0..(PARTITION_LBA_SIZE - 1) }
    \cup { Poke(Zeros(PARTITION_LBA_SIZE), at, 7) : at \in 0..31 }
    \cup { Zeros(PARTITION_LBA_SIZE),
           Poke(Zeros(PARTITION_LBA_SIZE), 127, 7),
           Zeros(16) \o [i \in 1..112 |-> 255],
           Partition_serialize(PB),
           Slice(Partition_serialize(PA), 0, 100),
           Partition_serialize(PA) \o <<1, 2>> }

PartRecords ==
    { PartRecord_zero,
      PartRecord_new_protective(None),
      PartRecord_new_protective(Some(<<4660, 22136>>)),
      [boot_indicator |-> 128, start_head |-> 1, start_sector |-> 2, start_track |-> 3,
       os_type |-> 131, end_head |-> 4, end_sector |-> 5, end_track |-> 6,
       lb_start |-> <<2048, 0>>, lb_size |-> <<0, 16>>],
      [boot_indicator |-> 0, start_head |-> 254, start_sector |-> 63, start_track |-> 255,
       os_type |-> 7, end_head |-> 9, end_sector |-> 9, end_track |-> 9,
       lb_start |-> <<65535, 32767>>, lb_size |-> <<1, 0>>] }

PartRecordBlks ==
    { Poke(Zeros(16), at, 255) : at \in 0..15 }
    \cup { Zeros(16), Zeros(15), Zeros(17), <<>> }

\* a 512-byte boot sector: boot code, disk signature, unknown, one
\* protective record and three zero records, and the two signature bytes
MbrBlk(sig) ==
    [i \in 1..440 |-> i % 251] \o <<222, 173, 190, 239>> \o <<1, 2>>
    \o PartRecord_to_bytes(PartRecord_new_protective(None))
    \o Zeros(48) \o sig

MbrBlks ==
    { MbrBlk(MBR_SIGNATURE), MbrBlk(<<0, 0>>), MbrBlk(<<85, 0>>), MbrBlk(<<170, 85>>),
      Zeros(510) \o MBR_SIGNATURE, Zeros(512),
      Zeros(100), Zeros(442), Zeros(500) }

\* ProtectiveMBR::default(): every field zero
ProtectiveMBR_default ==
    [bootcode       |-> Zeros(440),
     disk_signature |-> Zeros(4),
     unknown        |-> <<0>>,
     partitions     |-> [i \in 1..4 |-> PartRecord_zero],
     signature      |-> Zeros(2)]

\* a boot sector value with the MBR signature, every field non-zero
MbrA ==
    [bootcode       |-> [i \in 1..440 |-> (7 * i) % 256],
     disk_signature |-> <<222, 173, 190, 239>>,
     unknown        |-> <<4660>>,
     partitions     |-> <<PartRecord_new_protective(None),
                          PartRecord_new_protective(Some(<<4660, 22136>>)),
                          PartRecord_zero,
                          PartRecord_new_protective(Some(<<1, 0>>))>>,
     signature      |-> MBR_SIGNATURE]

ProtectiveMBRs ==
    { ProtectiveMBR_default,
      [ProtectiveMBR_default EXCEPT !.signature = MBR_SIGNATURE],
      MbrA }

----------------------------------------------------------------------------
(* The codecs called one at a time.  A call records its name, arguments    *)
(* and result in `ret`; a value that was just serialized can be parsed     *)
(* back, and the call then also records the value it came from (src).  A   *)
(* call that panics is fatal: nothing is called after it.                  *)

Init ==
    /\ protective_mbr = Uninit
    /\ primary_header = Uninit
    /\ backup_header = Uninit
    /\ partitions = <<>>
    /\ backup_partitions = <<>>
    /\ fatal = FALSE
    /\ calls = 0
    /\ ret = [op |-> "GptLayout::new"]

CallHeaderSerialize ==
    /\ ~fatal
    /\ \E h \in Headers :
          ret' = [op |-> "Header::serialize", self |-> h,
                  out |-> Ok(Header_serialize(h))]
    /\ fatal' = (ret'.out.tag = "Panic")
    /\ UNCHANGED <<layout, calls>>

CallHeaderDeserialize ==
    /\ ~fatal
    /\ \E blk \in HeaderBlks :
          ret' = [op |-> "Header::deserialize", blk |-> blk, src |-> None,
                  out |-> Header_deserialize(blk)]
    /\ fatal' = (ret'.out.tag = "Panic")
    /\ UNCHANGED <<layout, calls>>

HeaderReparse ==
    /\ ~fatal
    /\ ret.op = "Header::serialize"
    /\ ret' = [op |-> "Header::deserialize", blk |-> ret.out.val,
               src |-> Some(ret.self), out |-> Header_deserialize(ret.out.val)]
    /\ fatal' = (ret'.out.tag = "Panic")
    /\ UNCHANGED <<layout, calls>>

CallPartitionSerialize ==
    /\ ~fatal
    /\ \E p \in Partitions :
          ret' = [op |-> "Partition::serialize", self |-> p,
                  out |-> Ok(Partition_serialize(p))]
    /\ fatal' = (ret'.out.tag = "Panic")
    /\ UNCHANGED <<layout, calls>>

CallPartitionDeserialize ==
    /\ ~fatal
    /\ \E blk \in PartitionBlks :
          ret' = [op |-> "Partition::deserialize", blk |-> blk, src |-> None,
                  out |-> Partition_deserialize(blk)]
    /\ fatal' = (ret'.out.tag = "Panic")
    /\ UNCHANGED <<layout, calls>>

PartitionReparse ==
    /\ ~fatal
    /\ ret.op = "Partition::serialize"
    /\ ret' = [op |-> "Partition::deserialize", blk |-> ret.out.val,
               src |-> Some(ret.self), out |-> Partition_deserialize(ret.out.val)]
    /\ fatal' = (ret'.out.tag = "Panic")
    /\ UNCHANGED <<layout, calls>>

CallPartRecordToBytes ==
    /\ ~fatal
    /\ \E r \in PartRecords :
          ret' = [op |-> "PartRecord::to_bytes", self |-> r,
                  out |-> Ok(PartRecord_to_bytes(r))]
    /\ fatal' = (ret'.out.tag = "Panic")
    /\ UNCHANGED <<layout, calls>>

CallPartRecordFromBytes ==
    /\ ~fatal
    /\ \E bytes \in PartRecordBlks :
          ret' = [op |-> "PartRecord::from_bytes", blk |-> bytes, src |-> None,
                  out |-> PartRecord_from_bytes(bytes)]
    /\ fatal' = (ret'.out.tag = "Panic")
    /\ UNCHANGED <<layout, calls>>

PartRecordReparse ==
    /\ ~fatal
    /\ ret.op = "PartRecord::to_bytes"
    /\ ret' = [op |-> "PartRecord::from_bytes", blk |-> ret.out.val,
               src |-> Some(ret.self), out |-> PartRecord_from_bytes(ret.out.val)]
    /\ fatal' = (ret'.out.tag = "Panic")
    /\ UNCHANGED <<layout, calls>>

CallMbrDeserialize ==
    /\ ~fatal
    /\ \E blk \in MbrBlks :
          ret' = [op |-> "ProtectiveMBR::deserialize", blk |-> blk, src |-> None,
                  out |-> ProtectiveMBR_deserialize(blk)]
    /\ fatal' = (ret'.out.tag = "Panic")
    /\ UNCHANGED <<layout, calls>>

CallMbrSerialize ==
    /\ ~fatal
    /\ \E m \in ProtectiveMBRs :
          ret' = [op |-> "ProtectiveMBR::serialize", self |-> m,
                  out |-> Ok(ProtectiveMBR_serialize(m))]
    /\ fatal' = (ret'.out.tag = "Panic")
    /\ UNCHANGED <<layout, calls>>

MbrReparse ==
    /\ ~fatal
    /\ ret.op = "ProtectiveMBR::serialize"
    /\ ret' = [op |-> "ProtectiveMBR::deserialize", blk |-> ret.out.val,
               src |-> Some(ret.self), out |-> ProtectiveMBR_deserialize(ret.out.val)]
    /\ fatal' = (ret'.out.tag = "Panic")
    /\ UNCHANGED <<layout, calls>>

CallUuidFmt ==
    /\ ~fatal
    /\ \E u \in Uuids :
          ret' = [op |-> "Uuid::fmt", self |-> u, out |-> Ok(Uuid_fmt(u))]
    /\ fatal' = (ret'.out.tag = "Panic")
    /\ UNCHANGED <<layout, calls>>

NextCodec ==
    \/ CallHeaderSerialize
    \/ CallHeaderDeserialize
    \/ HeaderReparse
    \/ CallPartitionSerialize
    \/ CallPartitionDeserialize
    \/ PartitionReparse
    \/ CallPartRecordToBytes
    \/ CallPartRecordFromBytes
    \/ PartRecordReparse
    \/ CallMbrDeserialize
    \/ CallMbrSerialize
    \/ MbrReparse
    \/ CallUuidFmt

SpecCodec == Init /\ [][NextCodec]_vars

----------------------------------------------------------------------------
(* lib.rs: GptLayout *)

\* init_partitions / init_backup_partitions, line 64 / 76: the number of
\* slots before the buffer's first one.  entry_index is the 1-based index
\* of the buffer in the table, so entry_index - 1 does not underflow.
part_index_of(entry_index, part_num) == (entry_index - 1) * part_num

slot_of_zero_based(part_index, index) == part_index + index

\* line 69 / 81: the slot number pushed with the entry at local offset index
slot_of(part_index, index) == part_index + index + 1

\* one iteration of the for_each of init_partitions /
\* init_backup_partitions: the 128-byte slice at local offset index is
\* pushed on the collection, with its slot number, if it deserializes to an
\* entry
push_entry(coll, blk, part_index, index) ==
    LET start == index * PARTITION_LBA_SIZE
        end   == start + PARTITION_LBA_SIZE
        part  == Partition_deserialize(Slice(blk, start, end))
    IN  IF part.tag = "Some"
        THEN Append(coll, <<part.val, slot_of(part_index, index)>>)
        ELSE coll

\* the iterations lo, lo+1, .., hi-1 of the for_each, in this order (the
\* range is halved to keep the evaluation shallow)
RECURSIVE for_each(_, _, _, _, _)
for_each(coll, blk, part_index, lo, hi) ==
    IF hi <= lo THEN coll
    ELSE IF hi = lo + 1 THEN push_entry(coll, blk, part_index, lo)
    ELSE LET mid   == (lo + hi) \div 2
             first == for_each(coll, blk, part_index, lo, mid)
         IN  IF Len(first) >= Len(coll)
             THEN for_each(first, blk, part_index, mid, hi)
             ELSE first

\* the body of init_partitions / init_backup_partitions on collection coll
load_partitions(coll, blk, entry_index) ==
    LET part_num   == Len(blk) \div PARTITION_LBA_SIZE
        part_index == part_index_of(entry_index, part_num)
    IN  for_each(coll, blk, part_index, 0, part_num)

\* the scan of partition / backup_partition / partition_mut /
\* backup_partition_mut: find_index starts as PARTITION_LBA_SIZE and becomes
\* the 0-based position of the first element tagged part_index
find_index_of(coll, part_index) ==
    LET hits == {i \in 0..(Len(coll) - 1) : coll[i + 1][2] = part_index}
    IN  IF hits = {} THEN PARTITION_LBA_SIZE
        ELSE CHOOSE i \in hits : \A j \in hits : i <= j

\* partition / backup_partition / partition_mut / backup_partition_mut on
\* collection coll: the assert!, the scan, and the test of find_index
\* against PARTITION_LBA_SIZE
lookup(coll, part_index) ==
    IF ~(part_index < MIN_PARTITION_NUM) THEN Panic
    ELSE LET find_index == find_index_of(coll, part_index)
         IN  IF find_index # PARTITION_LBA_SIZE
             THEN Some(coll[find_index + 1][1])
             ELSE None

store_or_reset(region, r) == IF r.tag = "Ok" THEN MaybeInit(r.val) ELSE Uninit

\* init_primary_header / init_backup_header / init_protective_mbr: `?`
\* returns early on Err, otherwise the region is replaced by the new value
store(region, r) == IF r.tag = "Ok" THEN MaybeInit(r.val) ELSE region

\* what the initializer returns for the codec's result r
init_result(r) == IF r.tag = "Ok" THEN Ok(<<>>) ELSE r

----------------------------------------------------------------------------
(* Inputs of GptLayout *)

\* the number of init_* calls in a run
MaxCalls == 2

EntryA == Partition_serialize(PA)

\* an entry whose type GUID is non-zero in its last byte only
EntryB == Partition_serialize(PB)

EntryEmpty == Zeros(PARTITION_LBA_SIZE)

\* an entry with a zero type GUID and every other byte set
EntryGarbage == Zeros(16) \o [i \in 1..112 |-> 255]

\* n copies of blk, one after the other
Repeat(blk, n) == [i \in 1..(n * Len(blk)) |-> blk[((i - 1) % Len(blk)) + 1]]

\* partition-table buffers: a 512-byte block with two empty slots, a full
\* 512-byte block, and a whole 128-entry table followed by two more bytes
PartitionTableBlks ==
    { EntryGarbage \o EntryB \o EntryEmpty \o EntryA,
      EntryA \o EntryB \o EntryB \o EntryA,
      Repeat(EntryA, 128) \o <<1, 2>> }

EntryIndexes == {1, 2}

LookupIndexes == {0, 2, 5, 128}

LayoutHeaderBlks ==
    { ValidHeaderBlk \o Zeros(392), Header_serialize(HBackup),
      Poke(ValidHeaderBlk, 7, 0) }

LayoutMbrBlks == { MbrBlk(MBR_SIGNATURE), MbrBlk(<<0, 0>>) }

----------------------------------------------------------------------------
(* GptLayout: the initializers and the lookups, called on one aggregate.   *)
(* A call records its name, arguments and result in `ret`.                 *)

InitPrimaryHeader ==
    /\ ~fatal /\ calls < MaxCalls
    /\ \E blk \in LayoutHeaderBlks :
          LET r == Header_deserialize(blk) IN
          /\ primary_header' = store(primary_header, r)
          /\ ret' = [op |-> "init_primary_header", blk |-> blk, out |-> init_result(r)]
    /\ fatal' = (ret'.out.tag = "Panic")
    /\ calls' = calls + 1
    /\ UNCHANGED <<protective_mbr, backup_header, partitions, backup_partitions>>

InitBackupHeader ==
    /\ ~fatal /\ calls < MaxCalls
    /\ \E blk \in LayoutHeaderBlks :
          LET r == Header_deserialize(blk) IN
          /\ backup_header' = store(backup_header, r)
          /\ ret' = [op |-> "init_backup_header", blk |-> blk, out |-> init_result(r)]
    /\ fatal' = (ret'.out.tag = "Panic")
    /\ calls' = calls + 1
    /\ UNCHANGED <<protective_mbr, primary_header, partitions, backup_partitions>>

InitProtectiveMbr ==
    /\ ~fatal /\ calls < MaxCalls
    /\ \E blk \in LayoutMbrBlks :
          LET r == ProtectiveMBR_deserialize(blk) IN
          /\ protective_mbr' = store(protective_mbr, r)
          /\ ret' = [op |-> "init_protective_mbr", blk |-> blk, out |-> init_result(r)]
    /\ fatal' = (ret'.out.tag = "Panic")
    /\ calls' = calls + 1
    /\ UNCHANGED <<primary_header, backup_header, partitions, backup_partitions>>

InitPartitions ==
    /\ ~fatal /\ calls < MaxCalls
    /\ \E blk \in PartitionTableBlks, entry_index \in EntryIndexes :
          /\ partitions' = load_partitions(partitions, blk, entry_index)
          /\ ret' = [op |-> "init_partitions", blk |-> blk,
                     entry_index |-> entry_index, out |-> Ok(<<>>)]
    /\ fatal' = FALSE
    /\ calls' = calls + 1
    /\ UNCHANGED <<protective_mbr, primary_header, backup_header, backup_partitions>>

InitBackupPartitions ==
    /\ ~fatal /\ calls < MaxCalls
    /\ \E blk \in PartitionTableBlks, entry_index \in EntryIndexes :
          /\ backup_partitions' = load_partitions(backup_partitions, blk, entry_index)
          /\ ret' = [op |-> "init_backup_partitions", blk |-> blk,
                     entry_index |-> entry_index, out |-> Ok(<<>>)]
    /\ fatal' = FALSE
    /\ calls' = calls + 1
    /\ UNCHANGED <<protective_mbr, primary_header, backup_header, partitions>>

GetPartition ==
    /\ ~fatal
    /\ \E part_index \in LookupIndexes :
          ret' = [op |-> "partition", part_index |-> part_index,
                  out |-> lookup(partitions, part_index)]
    /\ fatal' = (ret'.out.tag = "Panic")
    /\ UNCHANGED <<layout, calls>>

GetBackupPartition ==
    /\ ~fatal
    /\ \E part_index \in LookupIndexes :
          ret' = [op |-> "backup_partition", part_index |-> part_index,
                  out |-> lookup(backup_partitions, part_index)]
    /\ fatal' = (ret'.out.tag = "Panic")
    /\ UNCHANGED <<layout, calls>>

GetPartitionMut ==
    /\ ~fatal
    /\ \E part_index \in LookupIndexes :
          ret' = [op |-> "partition_mut", part_index |-> part_index,
                  out |-> lookup(partitions, part_index)]
    /\ fatal' = (ret'.out.tag = "Panic")
    /\ UNCHANGED <<layout, calls>>

GetBackupPartitionMut ==
    /\ ~fatal
    /\ \E part_index \in LookupIndexes :
          ret' = [op |-> "backup_partition_mut", part_index |-> part_index,
                  out |-> lookup(backup_partitions, part_index)]
    /\ fatal' = (ret'.out.tag = "Panic")
    /\ UNCHANGED <<layout, calls>>

\* the five initializers, called in any order
Next ==
    \/ InitPrimaryHeader
    \/ InitBackupHeader
    \/ InitProtectiveMbr
    \/ InitPartitions
    \/ InitBackupPartitions

Spec == Init /\ [][Next]_vars

\* the partition tables loaded and looked up, in any order
NextLookup ==
    \/ InitPartitions
    \/ InitBackupPartitions
    \/ GetPartition
    \/ GetBackupPartition
    \/ GetPartitionMut
    \/ GetBackupPartitionMut

SpecLookup == Init /\ [][NextLookup]_vars

----------------------------------------------------------------------------
(* Claims about the codecs, checked under SpecCodec *)

\* "EFI PART" in ASCII
EfiPartAscii == <<69, 70, 73, 32, 80, 65, 82, 84>>

\* C4: Header::deserialize of a buffer whose first 8 bytes differ from
\* "EFI PART" in at least one position returns Err(InvalidGptSignature), so
\* no Header; a buffer whose first 8 bytes are "EFI PART" is never rejected
\* with InvalidGptSignature.
C4_SignatureRejection ==
    (ret.op = "Header::deserialize" /\ Len(ret.blk) >= 8)
    => ( (ret.out = Err("InvalidGptSignature"))
         <=> (\E i \in 1..8 : ret.blk[i] # EfiPartAscii[i]) )

\* a header whose signature differs in its last byte only was rejected
C4_Witness ==
    /\ ret.op = "Header::deserialize"
    /\ Len(ret.blk) >= HeaderWireLen
    /\ Slice(ret.blk, 0, 7) = Slice(EfiPartAscii, 0, 7)
    /\ ret.blk[8] # EfiPartAscii[8]
    /\ ret.out = Err("InvalidGptSignature")

\* C5: Header::deserialize of a buffer with the right signature whose stored
\* CRC (bytes 16..19) differs from the CRC-32 of the header bytes computed
\* with the CRC field as zero returns Err(InvalidCRC32Checksum).
C5_CrcRejection ==
    ( /\ ret.op = "Header::deserialize"
      /\ Len(ret.blk) >= HeaderWireLen
      /\ Slice(ret.blk, 0, 8) = EfiPartAscii
      /\ read_le(Slice(ret.blk, 16, 20)) # HeaderCrc32(ret.blk) )
    => ret.out = Err("InvalidCRC32Checksum")

\* C6: ProtectiveMBR::deserialize of a 512-byte buffer whose last two bytes
\* are not 55h AAh returns Err(InvalidMBRSignature) as a value.
C6_MbrSignatureRejection ==
    ( /\ ret.op = "ProtectiveMBR::deserialize"
      /\ Len(ret.blk) = 512
      /\ <<ret.blk[511], ret.blk[512]>> # <<85, 170>> )
    => ret.out = Err("InvalidMBRSignature")

\* C8: for a Header h with signature "EFI PART", deserialize(serialize(h))
\* is Ok(h): every field comes back equal.
C8_HeaderRoundTrip ==
    ( /\ ret.op = "Header::deserialize"
      /\ ret.src.tag = "Some"
      /\ ret.src.val.signature = EfiPartAscii )
    => ret.out = Ok(ret.src.val)

\* C9: for a Partition p with a non-zero type GUID, serialize gives exactly
\* 128 bytes and deserialize(serialize(p)) is Some(p): every field comes
\* back equal.
C9_PartitionRoundTrip ==
    ( /\ ret.op = "Partition::deserialize"
      /\ ret.src.tag = "Some"
      /\ \E i \in 1..16 : ret.src.val.part_type_guid[i] # 0 )
    => (Len(ret.blk) = 128 /\ ret.out = Some(ret.src.val))

\* an entry with every numeric field at its maximum or spread over all its
\* bytes was serialized and parsed back
C9_Witness ==
    /\ ret.op = "Partition::deserialize"
    /\ ret.src = Some(PB)
    /\ ret.out.tag = "Some"

\* C10: for a PartRecord r, from_bytes(to_bytes(r)) is Ok(r): all ten
\* fields come back equal.
C10_PartRecordRoundTrip ==
    (ret.op = "PartRecord::from_bytes" /\ ret.src.tag = "Some")
    => ret.out = Ok(ret.src.val)

\* C11: ProtectiveMBR::deserialize of a 512-byte buffer ending in 55h AAh
\* returns Ok(m) with m.bootcode = bytes 0..439, m.disk_signature = bytes
\* 440..443, m.unknown = the little-endian 16-bit value at 444..445 and the
\* four records parsed from offsets 446, 462, 478 and 494; and when the
\* buffer is serialize(m0) of a value m0 with signature 55h AAh, the result
\* is Ok(m0).
C11_MbrParseRoundTrip ==
    ( /\ ret.op = "ProtectiveMBR::deserialize"
      /\ Len(ret.blk) = 512
      /\ <<ret.blk[511], ret.blk[512]>> = <<85, 170>> )
    => ( /\ ret.out.tag = "Ok"
         /\ ret.out.val.bootcode = Slice(ret.blk, 0, 440)
         /\ ret.out.val.disk_signature = Slice(ret.blk, 440, 444)
         /\ ret.out.val.unknown = <<ret.blk[445] + 256 * ret.blk[446]>>
         /\ \A i \in 0..3 :
               Ok(ret.out.val.partitions[i + 1])
                  = PartRecord_from_bytes(Slice(ret.blk, 446 + 16 * i, 462 + 16 * i))
         /\ (ret.src.tag = "Some" /\ ret.src.val.signature = <<85, 170>>)
               => ret.out = Ok(ret.src.val) )

\* "0123456789abcdef" in ASCII
HexAlphabet == <<48, 49, 50, 51, 52, 53, 54, 55, 56, 57, 97, 98, 99, 100, 101, 102>>

\* two hex digits of a byte, leading zero kept
TwoDigits(b) == <<HexAlphabet[(b \div 16) + 1], HexAlphabet[(b % 16) + 1]>>

\* the 36-character text b3 b2 b1 b0 - b5 b4 - b7 b6 - b8 b9 - b10..b15
\* of a 16-byte identifier, two digits per byte
GuidText(b) ==
    TwoDigits(b[4]) \o TwoDigits(b[3]) \o TwoDigits(b[2]) \o TwoDigits(b[1])
    \o <<45>> \o TwoDigits(b[6]) \o TwoDigits(b[5])
    \o <<45>> \o TwoDigits(b[8]) \o TwoDigits(b[7])
    \o <<45>> \o TwoDigits(b[9]) \o TwoDigits(b[10])
    \o <<45>> \o TwoDigits(b[11]) \o TwoDigits(b[12]) \o TwoDigits(b[13])
              \o TwoDigits(b[14]) \o TwoDigits(b[15]) \o TwoDigits(b[16])

\* "03020100-0504-0706-0809-0a0b0c0d0e0f" in ASCII
Text00To0F ==
    <<48, 51, 48, 50, 48, 49, 48, 48, 45, 48, 53, 48, 52, 45, 48, 55, 48, 54, 45,
      48, 56, 48, 57, 45, 48, 97, 48, 98, 48, 99, 48, 100, 48, 101, 48, 102>>

\* C12: the text form of a 16-byte Uuid b0..b15 is the 36-character string
\* of two lowercase hex digits per byte (leading zero kept) in the order
\* b3 b2 b1 b0 - b5 b4 - b7 b6 - b8 b9 - b10..b15; bytes 00 01 .. 0F render
\* as 03020100-0504-0706-0809-0a0b0c0d0e0f.
C12_UuidText ==
    (ret.op = "Uuid::fmt")
    => ( /\ ret.out.tag = "Ok"
         /\ Len(ret.out.val) = 36
         /\ ret.out.val = GuidText(ret.self)
         /\ (ret.self = <<0, 1, 2, 3, 4, 5, 6, 7, 8, 9, 10, 11, 12, 13, 14, 15>>
               => ret.out.val = Text00To0F) )

----------------------------------------------------------------------------
(* Claims about GptLayout *)

\* the 128-byte entry at local offset k (0-based) of a table buffer
EntryAt(blk, k) == Slice(blk, 128 * k, 128 * k + 128)

\* the local offsets of a table buffer whose entry has a non-zero type GUID
UsedOffsets(blk) ==
    {k \in 0..((Len(blk) \div 128) - 1) : \E i \in 1..16 : EntryAt(blk, k)[i] # 0}

\* Loaded(old, new, blk, entry_index): collection `new` is `old` followed by
\* the used entries of blk, in the order of their offsets, the entry at
\* offset k tagged (entry_index - 1) * (buffer length / 128) + k + 1
Loaded(old, new, blk, entry_index) ==
    LET used == UsedOffsets(blk)
        pos(k) == Len(old) + Cardinality({j \in used : j <= k})
    IN  /\ Len(new) = Len(old) + Cardinality(used)
        /\ SubSeq(new, 1, Len(old)) = old
        /\ \A k \in used :
              /\ new[pos(k)][1] = Partition_deserialize(EntryAt(blk, k)).val
              /\ new[pos(k)][2] = (entry_index - 1) * (Len(blk) \div 128) + k + 1

\* C1: a call of init_partitions (init_backup_partitions) with entry_index
\* >= 1 and a buffer whose length is a multiple of 128 appends to the primary
\* (backup) collection every non-empty entry of the buffer, in input order,
\* the entry at local offset k tagged with slot number
\* (entry_index - 1) * (buffer length / 128) + k + 1.
C1_SlotNumbers ==
    [][ ( /\ calls' = calls + 1
          /\ ret'.op \in {"init_partitions", "init_backup_partitions"}
          /\ ret'.entry_index >= 1
          /\ Len(ret'.blk) % 128 = 0 )
        => IF ret'.op = "init_partitions"
           THEN Loaded(partitions, partitions', ret'.blk, ret'.entry_index)
           ELSE Loaded(backup_partitions, backup_partitions', ret'.blk, ret'.entry_index)
      ]_vars

\* two full 512-byte buffers were loaded with entry_index 1 and 2: the
\* primary collection holds slots 1..4 and then 5..8
C1_Witness ==
    /\ ret.op = "init_partitions"
    /\ ret.entry_index = 2
    /\ Len(ret.blk) = 512
    /\ [j \in 1..Len(partitions) |-> partitions[j][2]] = <<1, 2, 3, 4, 5, 6, 7, 8>>

\* C2: for a slot index i below 128, partition(i) (backup_partition,
\* partition_mut, backup_partition_mut) returns a stored entry of its
\* collection tagged i whenever there is one, and not-found only when no
\* stored entry is tagged i, however many entries the collection holds.
C2_LookupFindsTaggedEntry ==
    ( /\ ret.op \in {"partition", "backup_partition", "partition_mut",
                     "backup_partition_mut"}
      /\ ret.part_index < 128 )
    => LET coll == IF ret.op \in {"partition", "partition_mut"}
                   THEN partitions ELSE backup_partitions
           tagged == {j \in 1..Len(coll) : coll[j][2] = ret.part_index}
       IN  IF tagged = {}
           THEN ret.out = None
           ELSE \E j \in tagged : ret.out = Some(coll[j][1])

\* C13: while a collection holds at most 128 entries, every entry stored in
\* it with a slot number s in 1..128 is retrieved by its slot: partition(s)
\* (backup_partition(s)) does not fail its precondition and returns an entry
\* stored with slot s, s = 128 included.
C13_StoredSlotRetrieved ==
    LET coll == IF ret.op = "partition" THEN partitions ELSE backup_partitions
    IN  ( /\ ret.op \in {"partition", "backup_partition"}
          /\ Len(coll) <= 128
          /\ ret.part_index \in 1..128
          /\ \E j \in 1..Len(coll) : coll[j][2] = ret.part_index )
        => ( /\ ret.out.tag # "Panic"
             /\ ~fatal
             /\ \E j \in 1..Len(coll) :
                   /\ coll[j][2] = ret.part_index
                   /\ ret.out = Some(coll[j][1]) )

\* the codec the initializer `op` delegates to, applied to blk
CodecOf(op, blk) ==
    IF op = "init_protective_mbr"
    THEN ProtectiveMBR_deserialize(blk)
    ELSE Header_deserialize(blk)

\* C3: a region initializer stores the parsed value only when its codec
\* succeeds: unless the codec succeeds the whole aggregate stays as it was,
\* and when the codec fails the initializer returns the codec's error; when
\* the codec succeeds, the initializer stores the parsed value in its own
\* region and changes nothing else.
C3_RegionInitializers ==
    [][ ( /\ calls' = calls + 1
          /\ ret'.op \in {"init_protective_mbr", "init_primary_header",
                          "init_backup_header"} )
        => LET r == CodecOf(ret'.op, ret'.blk) IN
           /\ r.tag # "Ok" => layout' = layout
           /\ r.tag = "Err" => ret'.out = r
           /\ r.tag = "Ok" =>
                /\ ret'.out = Ok(<<>>)
                /\ UNCHANGED <<partitions, backup_partitions>>
                /\ CASE ret'.op = "init_protective_mbr" ->
                          /\ protective_mbr' = MaybeInit(r.val)
                          /\ UNCHANGED <<primary_header, backup_header>>
                     [] ret'.op = "init_primary_header" ->
                          /\ primary_header' = MaybeInit(r.val)
                          /\ UNCHANGED <<protective_mbr, backup_header>>
                     [] ret'.op = "init_backup_header" ->
                          /\ backup_header' = MaybeInit(r.val)
                          /\ UNCHANGED <<protective_mbr, primary_header>>
      ]_vars

\* init_primary_header failed on a bad signature after an earlier call had
\* stored a header: the stored header is still there
C3_Witness ==
    /\ ret.op = "init_primary_header"
    /\ ret.out = Err("InvalidGptSignature")
    /\ primary_header = MaybeInit(HValid)

\* C7: Partition::deserialize of a 128-byte entry returns no entry iff bytes
\* 0..15 are all zero, whatever bytes 16..127 hold, and does not panic; so a
\* call of init_partitions / init_backup_partitions appends exactly the
\* slots of its buffer whose type GUID is not all zero, and no stored entry
\* has an all-zero type GUID.
C7_PresenceFilter ==
    [][ ( /\ calls' = calls + 1
          /\ ret'.op \in {"init_partitions", "init_backup_partitions"} )
        => LET old == IF ret'.op = "init_partitions" THEN partitions
                      ELSE backup_partitions
               new == IF ret'.op = "init_partitions" THEN partitions'
                      ELSE backup_partitions'
               n   == Len(ret'.blk) \div 128
           IN  /\ \A k \in 0..(n - 1) :
                     LET e == EntryAt(ret'.blk, k)
                         d == Partition_deserialize(e)
                     IN  /\ d.tag \in {"Some", "None"}
                         /\ (d = None) <=> (\A i \in 1..16 : e[i] = 0)
               /\ Len(new) >= Len(old)
               /\ {new[j][2] : j \in (Len(old) + 1)..Len(new)}
                    = {(ret'.entry_index - 1) * n + k + 1 : k \in UsedOffsets(ret'.blk)}
               /\ Len(new) - Len(old) = Cardinality(UsedOffsets(ret'.blk))
               /\ \A j \in 1..Len(new) : \E i \in 1..16 : new[j][1].part_type_guid[i] # 0
      ]_vars

\* a block holding an all-zero entry, an entry with a zero type GUID and
\* garbage after it, and two used entries was loaded: two entries are stored
C7_Witness ==
    /\ ret.op = "init_partitions"
    /\ Len(ret.blk) = 512
    /\ EntryAt(ret.blk, 0) = EntryGarbage
    /\ EntryAt(ret.blk, 2) = EntryEmpty
    /\ [j \in 1..Len(partitions) |-> partitions[j][2]] = <<2, 4>>

============================================================================
